---- MODULE Spec2Model ----
(***************************************************************************)
(* Delivery / scoring / bat-contact state machine of the cricket batting   *)
(* game (src/Game/src/scene/game2.ts, class Game).                         *)
(*                                                                         *)
(* One render frame runs the scene's before-render observers in their      *)
(* registration order: the bat tick (registered in setupBat3D), the        *)
(* delivery scheduler (registered in startDeliveries) and the ball tick of *)
(* the live delivery (registered in deliverBall).  Pointer presses, the    *)
(* PLAY AGAIN click and the countdown timer run between frames.            *)
(*                                                                         *)
(* Times are milliseconds.  Every time the code stores is kept relative to *)
(* performance.now():                                                      *)
(*   ballAge    = now - bornAt          deliveryIn = nextDeliveryAt - now  *)
(*   sinceHit   = now - lastHitAt       swingLeft  = swingUntil - now      *)
(* and saturates just past the largest threshold it is compared with.      *)
(* Heights are in units of 0.1 mm above baseY, horizontal distances from   *)
(* the boundary centre in centimetres.  Contact qualities are scaled       *)
(* integers: timingScore, alignFactor and sweet in 1/1000, swingSpeed in   *)
(* 1/10; loft/power multipliers in 1/10000.                                *)
(***************************************************************************)
EXTENDS Integers, FiniteSets, Sequences, TLC

\* ------------------------------------------------------------------ bounds
MaxBalls == 2
MaxMisses == 1
FrameDts == {125}

\* ------------------------------------------------------- program constants
Infinity == 99999999
SwingWindowMs == 160
HIT_GROUND_GRACE_MS == 220
WicketGraceMs == 250
TerminalAgeMs == 8000
SkidDelayMs == 120
CountdownSeconds == 3
CountdownIntervalMs == 1000
StartDelayMs == 150
IntervalMs == 5300
FlightMinMs == 500
FlightMaxMs == 350
HitAssistFrames == 2
BallRadius == 120
GroundTolerance == 25
FallDepth == 50000
BoundaryRadiusFloor == 1
SIX_TIMING_MIN == 880
SIX_ALIGN_MIN == 750
SIX_SWING_SPEED_MIN == 80
SixSweetMin == 700
MistimedBelow == 350
Unit == 100 * 100
SixGateLoftMul == 5500
SixGatePowerMul == 8500
MistimedLoftMul == 4000
MistimedPowerMul == 4500

\* ------------------------------------------------------------ input sets
\* dist/speed of a delivery, in ms (speed in [0.5,7], any release distance)
FlightRaws == {200, 400, 900}
\* the loaded scene: boundary radius, distance of the BallRelease anchor
\* from the boundary centre and its height
LoadedScene == [radius |-> 6000, release |-> 1000, releaseY |-> 20000]
\* what one ball tick reads from the physics engine
RadialDists == {6000, 6001}
Heights == {-50001, 126, 151, 20000}

Max(a, b) == IF a >= b THEN a ELSE b
Min(a, b) == IF a <= b THEN a ELSE b

clamp(v, min, max) == Max(min, Min(max, v))

PitchTouchY == (BallRadius * 105) \div 100

VARIABLES
  phase,                    \* position in the frame: idle, bat, sched, ball
  gameOver, runs, balls, hits, misses, status, playAgainShown,
  activeBall,               \* activeBall / activeBallAgg handle is non-null
  liveBalls,                \* ball meshes + physics bodies not yet disposed
  ballObserver,             \* ballObserver handle is non-null
  observers,                \* ball tick closures registered on the scene
  ballAge, t, bounced, postBounceNoRebounceApplied,   \* closure of the tick
  ballWasHit, wasHitThisDelivery, touchedGroundSinceHit, boundaryScored,
  prevInsideBoundary, pendingMissForThisSwing,
  isSwinging, swingLeft, swingConsumedHit,
  hitAssistFramesLeft, hitAssistVel,
  sinceHit, dippedLow,      \* dippedLow: hitMinY <= pitchTouchY + 0.0025
  deliveryIn, countdownT, countdownDue,
  boundaryRadius, releaseDist,
  did,                      \* what the last step did (calls, body writes)
  sample,                   \* what the last ball / bat tick read
  credits,                  \* effective addRuns calls since deliverBall/reset
  pressedLive,              \* pendingMissForThisSwing as set by the last press
  sinceDelivery,            \* time since the last deliverBall of this match
  pinsOwed,                 \* bat ticks left of the 2 that follow the last contact
  ballAtBat,                \* this frame's bat tick found or put the ball at the bat
  frameDt,                  \* time between two frames of this run
  sceneAnchors, batAnchors, \* node names present in the loaded assets
  loadStage,                \* how far createScene has got
  schedulerStarted,         \* deliveryObserver is registered
  sixIn,                    \* contact qualities fed to the six gate
  planIn,                   \* inputs of one delivery plan (deliverBall)
  planOut                   \* the plan: bounce point, launch velocity

scoreVars == <<runs, balls, hits, misses>>
ballVars == <<activeBall, liveBalls, ballObserver, observers>>
closureVars == <<ballAge, t, bounced, postBounceNoRebounceApplied>>
deliveryFlags == <<ballWasHit, wasHitThisDelivery, touchedGroundSinceHit,
                   boundaryScored, prevInsideBoundary, sinceHit, dippedLow>>
swingVars == <<isSwinging, swingLeft, swingConsumedHit,
               pendingMissForThisSwing, pressedLive>>
assistVars == <<hitAssistFramesLeft, hitAssistVel>>
countdownVars == <<countdownT, countdownDue>>
loadVars == <<sceneAnchors, batAnchors, loadStage, schedulerStarted>>
sceneVars == <<boundaryRadius, releaseDist, frameDt, loadVars>>
calcVars == <<sixIn, planIn, planOut>>

vars == <<phase, gameOver, status, playAgainShown, scoreVars, ballVars,
          closureVars, deliveryFlags, swingVars, assistVars, deliveryIn,
          countdownVars, sceneVars, did, sample, credits, pinsOwed, sinceDelivery,
          ballAtBat,
          calcVars>>

ZeroVel == [loft |-> 0, power |-> 0]
NoContact == [timing |-> -1, align |-> -1, speed |-> -1, sweet |-> -1]
NoPlan == [stage |-> "none"]
NoSample == [r |-> -1, y |-> 0, vyLow |-> FALSE, wicket |-> FALSE, reach |-> FALSE]

AgeCap == TerminalAgeMs + 1
SinceHitCap == HIT_GROUND_GRACE_MS + 1

\* ------------------------------------------------------------------ Init
\* the ten anchors createScene fetches with getPoint
RequiredPoints ==
  {"BallRelease", "BatsmanPoint", "WicketTarget", "PitchStart", "PitchEnd",
   "PitchL", "PitchR", "BounceGood", "BounceYorker", "OffStump"}

\* the blade anchors setupBat3D looks up in bat2.glb
BatAnchorNames == {"BatL", "BatR", "BatStart"}

\* The fields as the class declares them.
FieldDefaults ==
  /\ phase = "idle"
  /\ gameOver = FALSE /\ runs = 0 /\ balls = 0 /\ hits = 0 /\ misses = 0
  /\ playAgainShown = FALSE
  /\ activeBall = FALSE /\ liveBalls = 0
  /\ ballObserver = FALSE /\ observers = 0
  /\ ballAge = 0 /\ t = 0 /\ bounced = FALSE
  /\ postBounceNoRebounceApplied = FALSE
  /\ ballWasHit = FALSE /\ wasHitThisDelivery = FALSE
  /\ touchedGroundSinceHit = FALSE /\ boundaryScored = FALSE
  /\ prevInsideBoundary = TRUE /\ pendingMissForThisSwing = FALSE
  /\ isSwinging = FALSE /\ swingLeft = -1 /\ swingConsumedHit = FALSE
  /\ hitAssistFramesLeft = 0 /\ hitAssistVel = ZeroVel
  /\ sinceHit = SinceHitCap /\ dippedLow = FALSE
  /\ did = {} /\ sample = NoSample /\ credits = 0 /\ pressedLive = FALSE
  /\ pinsOwed = 0 /\ ballAtBat = FALSE
  /\ sinceDelivery = IntervalMs

\* The state when createScene returns on the shipped assets: every anchor
\* found, scheduler registered, first countdown started by
\* startMatchWithDelay, no ball yet.
InitGame ==
  /\ FieldDefaults
  /\ boundaryRadius = LoadedScene.radius
  /\ releaseDist = LoadedScene.release
  /\ status = "Get ready..."
  /\ deliveryIn = Infinity
  /\ countdownT = CountdownSeconds /\ countdownDue = CountdownIntervalMs
  /\ sceneAnchors = RequiredPoints /\ batAnchors = BatAnchorNames
  /\ loadStage = "ready" /\ schedulerStarted = TRUE

Init ==
  /\ InitGame
  /\ frameDt \in FrameDts
  /\ sixIn = NoContact /\ planIn = NoPlan /\ planOut = NoPlan

\* ------------------------------------------------------- helper functions
\* contact qualities a bat tick can compute (timing, align, speed, sweet)
ContactQualities ==
  { [timing |-> 950, align |-> 900, speed |-> 120, sweet |-> 900] }

\* variant: the lower clamp is lost
FlightTime_NoFloor(raw) == Min(FlightMaxMs, raw)

\* deliverBall: "clamp(dist / speed, 0.5, 0.35)"
FlightTime(raw) == clamp(raw, FlightMinMs, FlightMaxMs)

IsInsideBoundary(r) ==
  IF boundaryRadius = 0 THEN TRUE
  ELSE r * r <= boundaryRadius * boundaryRadius

\* variant: "this.runs = amount" instead of "+="
AddRuns_Assign(r, amount, over) == IF over THEN r ELSE amount

AddRuns(r, amount, over) == IF over THEN r ELSE r + amount

\* variant: the handles are cleared without disposing what they refer to
LiveAfterDispose_Leak(live, handle) == live

\* disposeBall: the mesh and aggregate behind the handle are disposed
LiveAfterDispose(live, handle) == IF handle THEN live - 1 ELSE live

\* variant: the handle is nulled without unregistering the observer
ObserversAfterRemove_Keep(n, handle) == n

\* "if (this.ballObserver) { remove(this.ballObserver); ... = null }"
ObserversAfterRemove(n, handle) == IF handle THEN n - 1 ELSE n

isSixCandidate(q) ==
  /\ q.timing >= SIX_TIMING_MIN
  /\ q.align >= SIX_ALIGN_MIN
  /\ q.speed >= SIX_SWING_SPEED_MIN
  /\ q.sweet > SixSweetMin

PowerMul(q) ==
  LET m1 == IF q.timing < MistimedBelow THEN MistimedPowerMul ELSE Unit
  IN IF ~isSixCandidate(q) THEN (m1 * SixGatePowerMul) \div Unit ELSE m1

LoftMul(q) ==
  LET m1 == IF q.timing < MistimedBelow THEN MistimedLoftMul ELSE Unit
  IN IF ~isSixCandidate(q) THEN (m1 * SixGateLoftMul) \div Unit ELSE m1

LaunchVel(q) == [loft |-> LoftMul(q), power |-> PowerMul(q)]

\* variant: the wasHitThisDelivery test is dropped
PendingMissAtPress_AnyLiveBall(active, hit) == active

\* variant: every press arms a miss
PendingMissAtPress_Always(active, hit) == TRUE

\* variant: the negation of wasHitThisDelivery is dropped
PendingMissAtPress_HitOnly(active, hit) == active /\ hit

\* pointer observer: "!!this.activeBall && !this.wasHitThisDelivery"
PendingMissAtPress(active, hit) == active /\ ~hit

\* variant: the launch vector is written on every hit-assist tick
LaunchDue_Always(left) == TRUE

\* bat tick, hit assist: "if (this.hitAssistFramesLeft <= 0)"
LaunchDue(left) == left <= 0

\* variant: a resolved contact does not consume the swing
ConsumedAfterTick_Never(contact, consumed) == consumed

\* bat tick, contact: "this.swingConsumedHit = true"
ConsumedAfterTick(contact, consumed) == contact \/ consumed

\* variant: ">=" for ">"
SwingExpired_AtWindowEnd(swinging, left) == swinging /\ left <= 0

\* variant: every contact counts as a hit
HitsAfterTick_EveryContact(h, contact, already) ==
  IF contact THEN h + 1 ELSE h

\* bat tick, contact: "if (!this.wasHitThisDelivery) { ...; this.hits += 1"
HitsAfterTick(h, contact, already) ==
  IF contact /\ ~already THEN h + 1 ELSE h

\* bat tick: "this.isSwinging && now > this.swingUntil"
SwingExpired(swinging, left) == swinging /\ left < 0

\* variant: the gameOver guard is dropped
MissOnExpiry_NoGameOverGuard(over, pending, consumed) == pending /\ ~consumed

\* bat tick: "!gameOver && pendingMissForThisSwing && !swingConsumedHit"
MissOnExpiry(over, pending, consumed) == ~over /\ pending /\ ~consumed

\* variant: no spawn grace period
WicketOut_NoGrace(age, wicket) == wicket

\* ball tick: "age > 0.25 && this.checkWicketHit(p, ballRadius)"
WicketOut(age, wicket) == age > WicketGraceMs /\ wicket

\* variant: no grace period after the hit
GraceOver_NoWait(hit, since) == hit

\* ball tick, ground touch: "if (this.wasHitThisDelivery) { ...
\* if (sinceHit > this.HIT_GROUND_GRACE_MS)"
GraceOver(hit, since) == hit /\ since > HIT_GROUND_GRACE_MS

\* variant: the flag follows the current tick only
TouchedAfterTick_Unlatched(touched, landed) == landed

\* ball tick, ground touch: the flag is only ever set by the tick,
\* "if (nearGround && descending && dippedLow) touchedGroundSinceHit = true"
TouchedAfterTick(touched, landed) == touched \/ landed

\* ball tick: "!this.boundaryScored && this.boundaryRadius > 0.01"
BoundaryCheckEnabled(scored, radius) ==
  ~scored /\ radius > BoundaryRadiusFloor

\* variant: the ground-touch flag is ignored
BoundaryAmount_IgnoreGround(hit, touched) == IF hit THEN 6 ELSE 4

\* ball tick: six if hit and not grounded since, else four
BoundaryAmount(hit, touched) == IF hit /\ ~touched THEN 6 ELSE 4

\* variant: the scripted overrides ignore the hit flag
ScriptedEnabled_Always(hit) == TRUE

\* ball tick: "if (!this.ballWasHit ...)" around every scripted override
ScriptedEnabled(hit) == ~hit

\* variant: the age guard is dropped
BounceDue_NoAgeGuard(age, tf, y) == y <= PitchTouchY

\* ball tick, first bounce: "age >= t && p.y <= pitchTouchY"
BounceDue(age, tf, y) == age >= tf /\ y <= PitchTouchY

\* ball tick: "age > 8.0 || p.y < this.baseY - 5"
TerminalReached(age, y) == age > TerminalAgeMs \/ y < 0 - FallDepth

\* variant: the wasHitThisDelivery guard is dropped
TerminalSingle_NoHitGuard(over, hit, scored) == ~over /\ ~scored

\* variant: the boundaryScored guard is dropped
TerminalSingle_NoBoundaryGuard(over, hit, scored) == ~over /\ hit

\* ball tick: "!gameOver && wasHitThisDelivery && !boundaryScored"
TerminalSingle(over, hit, scored) == ~over /\ hit /\ ~scored

\* variant: the boundary and terminal checks run before the wicket check
RunsAfterOut_ChecksFirst(r, credited) == credited

\* ball tick: "this.setOut(...); return;" comes first, so what the later
\* checks of the tick would have credited is never added
RunsAfterOut(r, credited) == r

\* variant: a pending hit assist survives the delivery
AssistLeftAfterDelivery_Kept(left) == left

\* deliverBall: "this.hitAssistFramesLeft = 0"
AssistLeftAfterDelivery(left) == 0

\* variant: the delivery is not counted
BallsAfterDelivery_Uncounted(n) == n

\* deliverBall: "this.balls += 1"
BallsAfterDelivery(n) == n + 1

\* variant: the time guard is dropped
DeliveryDue_NoTimeGuard(over, dIn) == ~over

\* scheduler: "if (gameOver) return; if (now >= nextDeliveryAt)"
DeliveryDue(over, dIn) == ~over /\ dIn <= 0

\* variant: the scheduler is never re-armed
NextDeliveryAfterCountdown_Stale(over, cur) == cur

\* startMatchWithDelay after the countdown: "if (gameOver) return;
\* nextDeliveryAt = performance.now() + 150"
NextDeliveryAfterCountdown(over, cur) == IF over THEN cur ELSE StartDelayMs

\* ----------------------------------------------------------------- frame
\* variant: the order the specification text gives
FrameOrder_SchedBallBat == <<"sched", "ball", "bat">>

\* The before-render observers in registration order: bat tick (setupBat3D,
\* awaited by createScene), scheduler (startDeliveries, called after it),
\* ball tick (added by deliverBall, i.e. from inside the scheduler).
FrameOrder == <<"bat", "sched", "ball">>

\* the observer that runs after observer p in a frame, "idle" after the last
PhaseAfter(p) ==
  IF p = FrameOrder[3] THEN "idle"
  ELSE IF p = FrameOrder[1] THEN FrameOrder[2] ELSE FrameOrder[3]

\* The render loop starts a frame: time has advanced by dt.
Advance ==
  /\ phase = "idle"
  /\ loadStage = "ready"
  /\ countdownT = 0 \/ countdownDue > 0
  /\ LET dt == frameDt IN
       /\ ballAge' = IF observers > 0 THEN Min(ballAge + dt, AgeCap) ELSE ballAge
       /\ sinceHit' = Min(sinceHit + dt, SinceHitCap)
       /\ sinceDelivery' = Min(sinceDelivery + dt, IntervalMs)
       /\ swingLeft' = Max(swingLeft - dt, -1)
       /\ deliveryIn' = IF deliveryIn = Infinity THEN Infinity
                        ELSE Max(deliveryIn - dt, 0)
       /\ countdownDue' = IF countdownT > 0 THEN Max(countdownDue - dt, 0)
                          ELSE countdownDue
  /\ phase' = FrameOrder[1]
  /\ did' = {} /\ sample' = NoSample
  /\ UNCHANGED <<gameOver, status, playAgainShown, scoreVars, ballVars, t,
                 bounced, postBounceNoRebounceApplied, ballWasHit,
                 wasHitThisDelivery, touchedGroundSinceHit, boundaryScored,
                 prevInsideBoundary, dippedLow, isSwinging, swingConsumedHit,
                 pendingMissForThisSwing, pressedLive, assistVars, countdownT,
                 sceneVars, credits, pinsOwed, ballAtBat, calcVars>>

\* Pointer observer: left button pressed on the canvas.
Press ==
  /\ phase = "idle"
  /\ misses < MaxMisses
  /\ did' = IF gameOver THEN {"pressIgnored"} ELSE {"press"}
  /\ sample' = NoSample
  /\ IF gameOver
     THEN UNCHANGED swingVars
     ELSE /\ isSwinging' = TRUE
          /\ swingLeft' = SwingWindowMs
          /\ swingConsumedHit' = FALSE
          /\ pendingMissForThisSwing' =
               PendingMissAtPress(activeBall, wasHitThisDelivery)
          /\ pressedLive' = (activeBall /\ ~wasHitThisDelivery)
  /\ UNCHANGED <<phase, gameOver, status, playAgainShown, scoreVars, ballVars,
                 closureVars, deliveryFlags, assistVars, deliveryIn,
                 countdownVars, sceneVars, credits, pinsOwed, sinceDelivery, ballAtBat,
                 calcVars>>

\* PLAY AGAIN click: resetGame, then startMatchWithDelay up to its await.
resetGame ==
  /\ phase = "idle"
  /\ playAgainShown
  /\ gameOver' = FALSE
  /\ runs' = 0 /\ balls' = 0 /\ hits' = 0 /\ misses' = 0
  /\ ballWasHit' = FALSE /\ wasHitThisDelivery' = FALSE
  /\ touchedGroundSinceHit' = FALSE /\ boundaryScored' = FALSE
  /\ prevInsideBoundary' = TRUE
  /\ hitAssistFramesLeft' = 0
  /\ pendingMissForThisSwing' = FALSE
  /\ isSwinging' = FALSE /\ swingConsumedHit' = FALSE
  /\ sinceHit' = SinceHitCap /\ dippedLow' = FALSE
  /\ observers' = ObserversAfterRemove(observers, ballObserver)
  /\ ballObserver' = FALSE
  /\ liveBalls' = LiveAfterDispose(liveBalls, activeBall)
  /\ activeBall' = FALSE
  /\ ballAge' = 0 /\ t' = 0 /\ bounced' = FALSE
  /\ postBounceNoRebounceApplied' = FALSE
  /\ deliveryIn' = Infinity
  /\ playAgainShown' = FALSE
  /\ status' = "Get ready..."
  /\ countdownT' = CountdownSeconds /\ countdownDue' = CountdownIntervalMs
  /\ did' = {"resetGame"} /\ sample' = NoSample
  /\ credits' = 0 /\ pressedLive' = FALSE /\ ballAtBat' = FALSE
  /\ sinceDelivery' = IntervalMs
  /\ UNCHANGED <<phase, swingLeft, hitAssistVel, sceneVars, pinsOwed,
                 calcVars>>

\* setInterval callback of showCountdown; on the last one the promise
\* resolves and startMatchWithDelay continues.
CountdownInterval ==
  /\ phase = "idle"
  /\ countdownT > 0 /\ countdownDue <= 0
  /\ LET t1 == countdownT - 1 IN
       IF t1 <= 0
       THEN /\ countdownT' = 0 /\ countdownDue' = 0
            /\ did' = {"countdownDone"}
            /\ deliveryIn' = NextDeliveryAfterCountdown(gameOver, deliveryIn)
            /\ status' = IF gameOver THEN status ELSE "PLAY!"
       ELSE /\ countdownT' = t1 /\ countdownDue' = CountdownIntervalMs
            /\ did' = {"countdownTick"}
            /\ UNCHANGED <<deliveryIn, status>>
  /\ sample' = NoSample
  /\ UNCHANGED <<phase, gameOver, playAgainShown, scoreVars, ballVars,
                 closureVars, deliveryFlags, swingVars, assistVars,
                 sceneVars, credits, pinsOwed, sinceDelivery, ballAtBat, calcVars>>

\* Bat tick (before-render observer registered in setupBat3D).
BatTick ==
  /\ phase = "bat"
  /\ phase' = PhaseAfter("bat")
  /\ \E reach \in BOOLEAN, q \in ContactQualities :
       LET expired == SwingExpired(isSwinging, swingLeft)
           missNow == expired /\ MissOnExpiry(gameOver,
                                   pendingMissForThisSwing, swingConsumedHit)
           swinging1 == isSwinging /\ ~expired
           pending1 == IF expired THEN FALSE ELSE pendingMissForThisSwing
           assist == ~gameOver /\ hitAssistFramesLeft > 0 /\ activeBall
                              /\ "BatStart" \in batAnchors
           tested == ~gameOver /\ ~assist /\ swinging1 /\ ~swingConsumedHit
                              /\ activeBall
                              /\ {"BatL", "BatR"} \subseteq batAnchors
           contact == tested /\ reach
           left1 == hitAssistFramesLeft - 1
       IN
       \* the blade distance is read only while a swing is on a live ball
       /\ reach => (~gameOver /\ swinging1 /\ activeBall
                     /\ {"BatL", "BatR"} \subseteq batAnchors)
       /\ ~contact => q = CHOOSE c \in ContactQualities : TRUE
       /\ isSwinging' = swinging1
       /\ misses' = IF missNow THEN misses + 1 ELSE misses
       /\ pressedLive' = pressedLive
       /\ pinsOwed' = IF contact THEN HitAssistFrames
                      ELSE Max(pinsOwed - 1, 0)
       /\ ballAtBat' = (contact \/ assist)
       /\ swingConsumedHit' = ConsumedAfterTick(contact, swingConsumedHit)
       /\ pendingMissForThisSwing' = IF contact THEN FALSE ELSE pending1
       /\ wasHitThisDelivery' = IF contact THEN TRUE ELSE wasHitThisDelivery
       /\ hits' = HitsAfterTick(hits, contact, wasHitThisDelivery)
       /\ status' = IF contact /\ ~wasHitThisDelivery THEN "Hit!"
                    ELSE IF missNow THEN "Missed!" ELSE status
       /\ ballWasHit' = IF contact THEN TRUE ELSE ballWasHit
       /\ sinceHit' = IF contact THEN 0 ELSE sinceHit
       /\ dippedLow' = IF contact THEN FALSE ELSE dippedLow
       /\ touchedGroundSinceHit' = IF contact THEN FALSE
                                   ELSE touchedGroundSinceHit
       /\ hitAssistFramesLeft' = IF assist THEN left1
                                 ELSE IF contact THEN HitAssistFrames
                                 ELSE hitAssistFramesLeft
       /\ hitAssistVel' = IF contact THEN LaunchVel(q) ELSE hitAssistVel
       /\ did' = (IF expired THEN {"swingExpired"} ELSE {})
                 \cup (IF missNow THEN {"miss"} ELSE {})
                 \cup (IF assist THEN {"pin"} ELSE {})
                 \cup (IF assist /\ LaunchDue(left1) THEN {"launch"} ELSE {})
                 \cup (IF contact THEN {"contact"} ELSE {})
       /\ sample' = [NoSample EXCEPT !.reach = reach]
  /\ UNCHANGED <<gameOver, playAgainShown, runs, balls, ballVars, closureVars,
                 boundaryScored, prevInsideBoundary, swingLeft, deliveryIn,
                 countdownVars, sceneVars, credits, sinceDelivery, calcVars>>

\* deliverBall, called by the scheduler (gameOver is false there).
deliverBall ==
  /\ observers' = ObserversAfterRemove(observers, ballObserver) + 1
  /\ ballObserver' = TRUE
  /\ liveBalls' = LiveAfterDispose(liveBalls, activeBall) + 1
  /\ activeBall' = TRUE
  /\ ballWasHit' = FALSE /\ wasHitThisDelivery' = FALSE
  /\ touchedGroundSinceHit' = FALSE /\ boundaryScored' = FALSE
  /\ hitAssistFramesLeft' = AssistLeftAfterDelivery(hitAssistFramesLeft)
  /\ sinceHit' = SinceHitCap /\ dippedLow' = FALSE
  /\ balls' = BallsAfterDelivery(balls)
  /\ status' = "Ball delivered"
  /\ prevInsideBoundary' = IsInsideBoundary(releaseDist)
  /\ \E raw \in FlightRaws : t' = FlightTime(raw)
  /\ ballAge' = 0 /\ bounced' = FALSE /\ postBounceNoRebounceApplied' = FALSE
  /\ credits' = 0
  /\ sinceDelivery' = 0
  /\ did' = {"deliverBall"}
            \cup (IF ballObserver THEN {"removeObserver"} ELSE {})
            \cup (IF activeBall THEN {"disposeBall"} ELSE {})

\* Delivery scheduler (before-render observer registered in startDeliveries).
SchedTick ==
  /\ phase = "sched"
  /\ phase' = PhaseAfter("sched")
  /\ sample' = NoSample
  /\ IF DeliveryDue(gameOver, deliveryIn)
     THEN /\ balls < MaxBalls
          /\ deliverBall
          /\ deliveryIn' = IntervalMs
          /\ ballAtBat' = FALSE
          /\ UNCHANGED <<gameOver, playAgainShown, runs, hits, misses,
                         swingVars, hitAssistVel, countdownVars,
                         sceneVars, pinsOwed, calcVars>>
     ELSE /\ did' = {}
          /\ UNCHANGED <<gameOver, status, playAgainShown, scoreVars, ballVars,
                         closureVars, deliveryFlags, swingVars, assistVars,
                         deliveryIn, countdownVars, sceneVars, credits,
                         pinsOwed, sinceDelivery, ballAtBat, calcVars>>

\* Ball tick (before-render observer registered by deliverBall).
BallTick ==
  /\ phase = "ball"
  /\ phase' = PhaseAfter("ball")
  /\ IF observers = 0 \/ gameOver \/ ~activeBall
     THEN /\ did' = {} /\ sample' = NoSample
          /\ UNCHANGED <<gameOver, status, playAgainShown, scoreVars, ballVars,
                         closureVars, deliveryFlags, deliveryIn, credits>>
     ELSE \E r \in RadialDists \cup {releaseDist}, y \in Heights,
             vyLow \in BOOLEAN, wicket \in BOOLEAN :
       LET age == ballAge
           out == WicketOut(age, wicket)
           graceOver == GraceOver(wasHitThisDelivery, sinceHit)
           nearGround == y <= PitchTouchY + GroundTolerance
           dipped1 == IF wasHitThisDelivery THEN dippedLow \/ nearGround
                      ELSE dippedLow
           touched1 == TouchedAfterTick(touchedGroundSinceHit,
                         graceOver /\ nearGround /\ vyLow /\ dipped1)
           checked == BoundaryCheckEnabled(boundaryScored, boundaryRadius)
           inside == IsInsideBoundary(r)
           crossed == checked /\ prevInsideBoundary /\ ~inside
           scored1 == boundaryScored \/ crossed
           airborne == wasHitThisDelivery /\ ~touched1
           runs1 == IF crossed
                    THEN AddRuns(runs, BoundaryAmount(wasHitThisDelivery,
                                                      touched1), gameOver)
                    ELSE runs
           scripted == ScriptedEnabled(ballWasHit)
           swingNow == scripted /\ ~bounced /\ age < t
           bounceNow == scripted /\ ~bounced /\ BounceDue(age, t, y)
           bounced1 == bounced \/ bounceNow
           materialNow == scripted /\ bounced1
                          /\ ~postBounceNoRebounceApplied
           skidNow == scripted /\ bounced1 /\ age > t + SkidDelayMs
                      /\ y <= PitchTouchY
           terminal == TerminalReached(age, y)
           single == terminal /\ TerminalSingle(gameOver, wasHitThisDelivery,
                                                scored1)
           runs2 == IF single THEN AddRuns(runs1, 1, gameOver) ELSE runs1
       IN
       /\ vyLow => (graceOver /\ ~out)
       \* the tick of the delivery's own frame sees the ball at the release
       /\ (age = 0) <=> (r = releaseDist)
       /\ (age = 0) => (y = LoadedScene.releaseY /\ ~wicket)
       \* the stumps stand on the pitch: nothing 5 m under it is near them
       /\ (y < 0 - FallDepth) => ~wicket
       \* after a contact or a pin the tick reads the position the bat tick
       \* read or wrote: at the blade, over the pick plane
       /\ ballAtBat => (y >= 0 - FallDepth /\ IsInsideBoundary(r))
       /\ sample' = [r |-> r, y |-> y, vyLow |-> vyLow, wicket |-> wicket,
                     reach |-> FALSE]
       /\ IF out
          THEN \* setOut("OUT! Wicket hit"); return
               /\ gameOver' = TRUE
               /\ deliveryIn' = Infinity
               /\ observers' = ObserversAfterRemove(observers, ballObserver)
               /\ ballObserver' = FALSE
               /\ ballAge' = 0 /\ t' = 0 /\ bounced' = FALSE
               /\ postBounceNoRebounceApplied' = FALSE
               /\ status' = "OUT! Wicket hit"
               /\ playAgainShown' = TRUE
               /\ did' = {"ballTick", "setOut"}
               /\ runs' = RunsAfterOut(runs, runs2)
               /\ UNCHANGED <<balls, hits, misses, activeBall, liveBalls,
                              deliveryFlags, credits>>
          ELSE /\ dippedLow' = dipped1
               /\ touchedGroundSinceHit' = touched1
               /\ boundaryScored' = scored1
               /\ prevInsideBoundary' = IF checked THEN inside
                                        ELSE prevInsideBoundary
               /\ runs' = runs2
               /\ credits' = credits + (IF crossed THEN 1 ELSE 0)
                                     + (IF single THEN 1 ELSE 0)
               /\ status' = IF terminal THEN "Next ball..."
                            ELSE IF crossed /\ airborne THEN "SIX! (+6)"
                            ELSE IF crossed THEN "FOUR! (+4)"
                            ELSE status
               /\ IF terminal
                  THEN /\ observers' = ObserversAfterRemove(observers,
                                                            ballObserver)
                       /\ ballObserver' = FALSE
                       /\ liveBalls' = LiveAfterDispose(liveBalls, activeBall)
                       /\ activeBall' = FALSE
                       /\ ballAge' = 0 /\ t' = 0 /\ bounced' = FALSE
                       /\ postBounceNoRebounceApplied' = FALSE
                  ELSE /\ bounced' = bounced1
                       /\ postBounceNoRebounceApplied' =
                            (postBounceNoRebounceApplied \/ materialNow)
                       /\ UNCHANGED <<ballVars, ballAge, t>>
               /\ did' = {"ballTick"}
                    \cup (IF crossed /\ airborne THEN {"six"} ELSE {})
                    \cup (IF crossed /\ ~airborne THEN {"four"} ELSE {})
                    \cup (IF swingNow THEN {"swingImpulse"} ELSE {})
                    \cup (IF bounceNow THEN {"bounceRedirect"} ELSE {})
                    \cup (IF materialNow THEN {"materialChange"} ELSE {})
                    \cup (IF skidNow THEN {"skidFloor"} ELSE {})
                    \cup (IF single THEN {"single"} ELSE {})
                    \cup (IF terminal THEN {"terminal"} ELSE {})
               /\ UNCHANGED <<gameOver, playAgainShown, balls, hits, misses,
                              ballWasHit, wasHitThisDelivery, sinceHit,
                              deliveryIn>>
  /\ ballAtBat' = FALSE
  /\ UNCHANGED <<swingVars, assistVars, countdownVars, sceneVars, pinsOwed, sinceDelivery,
                 calcVars>>

Next ==
  \/ Advance
  \/ Press
  \/ resetGame
  \/ CountdownInterval
  \/ BatTick
  \/ SchedTick
  \/ BallTick

Spec == Init /\ [][Next]_vars

\* Fairness of the render loop and the timer: frames keep ticking, every
\* observer of a frame runs, a due interval callback runs.
Fairness ==
  /\ WF_vars(Advance)
  /\ WF_vars(BatTick)
  /\ WF_vars(SchedTick)
  /\ WF_vars(BallTick)
  /\ WF_vars(CountdownInterval)

\* One match up to its first delivery's end, under fair scheduling.
NextLive == Next /\ balls' <= 1 /\ misses' = 0

SpecLive == Init /\ [][NextLive]_vars /\ Fairness

\* One swing at a display rate that puts several frames in its window.
FineFrameDts == {40}

InitSwing ==
  /\ InitGame
  /\ frameDt \in FineFrameDts
  /\ sixIn = NoContact /\ planIn = NoPlan /\ planOut = NoPlan

NextSwing == Next /\ balls' <= 1 /\ misses' = 0

SpecSwing == InitSwing /\ [][NextSwing]_vars

\* ------------------------------------------------------- six gate alone
SixInputs ==
  { [timing |-> a, align |-> b, speed |-> c, sweet |-> d] :
      a \in {340, 879, 880, 1000}, b \in {749, 750, 1000},
      c \in {79, 80, 180}, d \in {699, 700, 701, 1000} }

InitSix ==
  /\ InitGame
  /\ frameDt \in FrameDts
  /\ sixIn \in SixInputs
  /\ planIn = NoPlan /\ planOut = NoPlan

\* The contact branch of the bat tick, from the qualities to hitAssistVel.
ResolveContact ==
  /\ sixIn # NoContact
  /\ hitAssistFramesLeft = 0
  /\ hitAssistFramesLeft' = HitAssistFrames
  /\ hitAssistVel' = LaunchVel(sixIn)
  /\ did' = {"contact"}
  /\ UNCHANGED <<phase, gameOver, status, playAgainShown, scoreVars, ballVars,
                 closureVars, deliveryFlags, swingVars, deliveryIn,
                 countdownVars, sceneVars, sample, credits, pinsOwed, sinceDelivery,
                 ballAtBat,
                 calcVars>>

SpecSix == InitSix /\ [][ResolveContact]_vars

\* ---------------------------------------------------- delivery plan alone
\* Lengths are millimetres in the pitch frame (u along the pitch from
\* PitchStart, v across it from the centre line, y above baseY), times are
\* milliseconds; velocities are exact fractions in m/s.
RECURSIVE GCD(_, _)
GCD(a, b) == IF b = 0 THEN a ELSE GCD(b, a % b)

Abs(a) == IF a < 0 THEN 0 - a ELSE a

Frac(n, d) ==
  LET g == GCD(Abs(n), Abs(d))
      sgn == IF d < 0 THEN 0 - 1 ELSE 1
  IN [n |-> sgn * (n \div g), d |-> sgn * (d \div g)]

\* exact +, -, *, / on reduced fractions (common factors are cancelled
\* before multiplying, so intermediate values stay small)
FAdd(a, b) ==
  LET g == GCD(a.d, b.d)
  IN Frac(a.n * (b.d \div g) + b.n * (a.d \div g), (a.d \div g) * b.d)

FSub(a, b) == FAdd(a, [n |-> 0 - b.n, d |-> b.d])

FMul(a, b) ==
  LET x == Frac(a.n, b.d)
      y == Frac(b.n, a.d)
  IN Frac(x.n * y.n, x.d * y.d)

FDiv(a, b) == FMul(a, Frac(b.d, b.n))

Metres(mm) == Frac(mm, 1000)
Seconds(ms) == Frac(ms, 1000)

\* "const g = -9.81"
Gravity == Frac(0 - 981, 100)
Half == Frac(1, 2)

\* variant: the margins are not applied
clampPointToPitch_NoMargin(pt, length, width, marginSide, marginLen) ==
  [u |-> clamp(pt.u, 0, length), v |-> clamp(pt.v, 0 - width \div 2,
                                             width \div 2), y |-> 5]

\* clampPointToPitch: u, v are the dot products with forward and side,
\* the result is rebuilt from the clamped pair at height baseY + 0.005
clampPointToPitch(pt, length, width, marginSide, marginLen) ==
  LET halfW == width \div 2
      uClamped == clamp(pt.u, marginLen, length - marginLen)
      vClamped == clamp(pt.v, (0 - halfW) + marginSide, halfW - marginSide)
  IN [u |-> uClamped, v |-> vClamped, y |-> 5]

\* variant: the factor 0.5 of the gravity term is dropped
ProjectileSolve_NoHalf(toBounce, tf) ==
  [x |-> FDiv(toBounce.x, tf),
   z |-> FDiv(toBounce.z, tf),
   y |-> FDiv(FSub(toBounce.y, FMul(Gravity, FMul(tf, tf))), tf)]

\* deliverBall: "vx = toBounce.x / t; vz = toBounce.z / t;
\* vy = (toBounce.y - 0.5 * g * (t * t)) / t"
ProjectileSolve(toBounce, tf) ==
  [x |-> FDiv(toBounce.x, tf),
   z |-> FDiv(toBounce.z, tf),
   y |-> FDiv(FSub(toBounce.y, FMul(FMul(Half, Gravity), FMul(tf, tf))), tf)]

\* the margins deliverBall passes to clampPointToPitch
PlanMarginSide == 80
PlanMarginLen == 120

\* pitch sizes, jittered bounce points before the clamp, release points and
\* flight times (the one this file computes, and shorter and longer ones)
PlanInputs ==
  { [stage |-> "in", length |-> l, width |-> w, pt |-> [u |-> u, v |-> v],
     release |-> [u |-> 19000, v |-> rv, y |-> ry], t |-> tm] :
      l \in {200, 240, 20120}, w \in {100, 160, 3050},
      u \in {0 - 500, 120, 10000, 20001, 30000},
      v \in {0 - 2000, 0 - 1445, 0, 1446},
      rv \in {0, 300}, ry \in {2000, 2200},
      tm \in {FlightTime(raw) : raw \in FlightRaws} \cup {250, 1350} }

InitPlan ==
  /\ InitGame
  /\ frameDt \in FrameDts
  /\ sixIn = NoContact
  /\ planIn \in PlanInputs
  /\ planOut = NoPlan

gameVars == <<phase, gameOver, status, playAgainShown, scoreVars, ballVars,
              closureVars, deliveryFlags, swingVars, assistVars, deliveryIn,
              countdownVars, sceneVars, did, sample, credits, pinsOwed, sinceDelivery,
              ballAtBat>>

\* deliverBall, bounce point: the jittered point is clamped to the pitch.
PlanBounce ==
  /\ planIn # NoPlan /\ planOut = NoPlan
  /\ planOut' = [stage |-> "bounce",
                 bounce |-> clampPointToPitch(planIn.pt, planIn.length,
                              planIn.width, PlanMarginSide, PlanMarginLen)]
  /\ UNCHANGED <<gameVars, sixIn, planIn>>

\* deliverBall, projectile solve: the launch velocity for the bounce point.
SolveLaunch ==
  /\ planOut # NoPlan /\ planOut.stage = "bounce"
  /\ LET b == planOut.bounce
         r == planIn.release
         toBounce == [x |-> Metres(b.v - r.v), y |-> Metres(b.y - r.y),
                      z |-> Metres(b.u - r.u)]
     IN planOut' = [stage |-> "solved", bounce |-> b,
                    vel |-> ProjectileSolve(toBounce, Seconds(planIn.t))]
  /\ UNCHANGED <<gameVars, sixIn, planIn>>

SpecPlan == InitPlan /\ [][PlanBounce \/ SolveLaunch]_vars

\* ------------------------------------------------------- loading alone
\* variant: a missing point is not noticed
MissingPoints_Ignored(anchors) == {}

\* getPoint throws for a name with neither a transform node nor a node
\* with a position; createScene calls it for each required point
MissingPoints(anchors) == RequiredPoints \ anchors

\* The state when createScene is entered, for any content of the two assets.
InitLoad ==
  /\ FieldDefaults
  /\ boundaryRadius = 0 /\ releaseDist = 0
  /\ status = ""
  /\ deliveryIn = 0
  /\ countdownT = 0 /\ countdownDue = 0
  /\ sceneAnchors \in SUBSET RequiredPoints
  /\ batAnchors \in SUBSET BatAnchorNames
  /\ loadStage = "stadium" /\ schedulerStarted = FALSE
  /\ frameDt \in FrameDts
  /\ sixIn = NoContact /\ planIn = NoPlan /\ planOut = NoPlan

playVars == <<phase, gameOver, scoreVars, ballVars, closureVars,
              deliveryFlags, swingVars, assistVars, sample, credits,
              pinsOwed, sinceDelivery, ballAtBat, frameDt, sceneAnchors, batAnchors,
              calcVars>>

\* createScene: the required points are fetched (getPoint throws on the
\* first missing one and createScene rejects), then the boundary is set up.
GrabRequiredPoints ==
  /\ loadStage = "stadium"
  /\ IF MissingPoints(sceneAnchors) # {}
     THEN /\ loadStage' = "failed"
          /\ did' = {"throwMissingPoint"}
          /\ UNCHANGED <<boundaryRadius, releaseDist>>
     ELSE /\ loadStage' = "bat"
          /\ did' = {}
          /\ boundaryRadius' = LoadedScene.radius
          /\ releaseDist' = LoadedScene.release
  /\ UNCHANGED <<playVars, status, playAgainShown, deliveryIn, countdownVars,
                 schedulerStarted>>

\* setupBat3D: the blade anchors are looked up; a missing one is reported
\* with console.warn and the bat tick is registered all the same.
setupBat3D ==
  /\ loadStage = "bat"
  /\ loadStage' = "start"
  /\ did' = IF BatAnchorNames \subseteq batAnchors THEN {}
            ELSE {"warnMissingBatAnchors"}
  /\ UNCHANGED <<playVars, status, playAgainShown, deliveryIn, countdownVars,
                 schedulerStarted, boundaryRadius, releaseDist>>

\* createScene: startDeliveries registers the scheduler, startMatchWithDelay
\* runs up to its await.
startDeliveries ==
  /\ loadStage = "start"
  /\ loadStage' = "ready"
  /\ schedulerStarted' = TRUE
  /\ deliveryIn' = Infinity
  /\ playAgainShown' = FALSE
  /\ status' = "Get ready..."
  /\ countdownT' = CountdownSeconds /\ countdownDue' = CountdownIntervalMs
  /\ did' = {"startDeliveries"}
  /\ UNCHANGED <<playVars, boundaryRadius, releaseDist>>

NextLoad == GrabRequiredPoints \/ setupBat3D \/ startDeliveries

SpecLoad == InitLoad /\ [][NextLoad]_vars

\* ---------------------------------------------------- flight time alone
\* Two deliveries to one bounce point: its distance from the release in
\* millimetres and the two drawn speeds in mm/s ("rand(0.5, 7)"), chosen so
\* that every quotient is a whole number of milliseconds.
FlightInputs ==
  { [stage |-> "flight", dist |-> d, speedA |-> a, speedB |-> b] :
      d \in {1400, 2800, 3500, 7000, 10500},
      a \in {500, 1000, 2000, 3500, 7000},
      b \in {500, 1000, 2000, 3500, 7000} }

InitFlight ==
  /\ InitGame
  /\ frameDt \in FrameDts
  /\ sixIn = NoContact
  /\ planIn \in FlightInputs
  /\ planOut = NoPlan

\* "dist / speed", in ms
FlightRaw(dist, speed) == (dist * 1000) \div speed

\* deliverBall, flight time, for each of the two speeds.
SolveFlight ==
  /\ planIn # NoPlan /\ planOut = NoPlan
  /\ LET rawA == FlightRaw(planIn.dist, planIn.speedA)
         rawB == FlightRaw(planIn.dist, planIn.speedB)
     IN planOut' = [stage |-> "times",
                    rawA |-> rawA, tA |-> FlightTime(rawA),
                    rawB |-> rawB, tB |-> FlightTime(rawB)]
  /\ UNCHANGED <<gameVars, sixIn, planIn>>

SpecFlight == InitFlight /\ [][SolveFlight]_vars

\* ------------------------------------------------ environment colliders
\* A mesh name is the sequence of its characters.
LowerOf ==
  "A" :> "a" @@ "B" :> "b" @@ "C" :> "c" @@ "D" :> "d" @@ "E" :> "e" @@ "F" :> "f" @@
  "G" :> "g" @@ "H" :> "h" @@ "I" :> "i" @@ "J" :> "j" @@ "K" :> "k" @@ "L" :> "l" @@
  "M" :> "m" @@ "N" :> "n" @@ "O" :> "o" @@ "P" :> "p" @@ "Q" :> "q" @@ "R" :> "r" @@
  "S" :> "s" @@ "T" :> "t" @@ "U" :> "u" @@ "V" :> "v" @@ "W" :> "w" @@ "X" :> "x" @@
  "Y" :> "y" @@ "Z" :> "z"

\* variant: the name is compared as written
toLowerCase_AsWritten(name) == name

\* String.prototype.toLowerCase on the letters A-Z
toLowerCase(name) ==
  [i \in 1..Len(name) |->
     IF name[i] \in DOMAIN LowerOf THEN LowerOf[name[i]] ELSE name[i]]

\* String.prototype.includes
includes(n, sub) ==
  \E i \in 1..(Len(n) - Len(sub) + 1) : SubSeq(n, i, i + Len(sub) - 1) = sub

MarkerSubstrings ==
  {<<"p", "o", "i", "n", "t">>,
   <<"h", "e", "l", "p", "e", "r">>}

CharacterSubstrings ==
  {<<"b", "a", "t", "s", "m", "a", "n">>,
   <<"p", "l", "a", "y", "e", "r">>,
   <<"c", "h", "a", "r", "a", "c", "t", "e", "r">>,
   <<"m", "a", "n">>}

AuthoredPointSubstrings ==
  {<<"b", "a", "l", "l", "r", "e", "l", "e", "a", "s", "e">>,
   <<"p", "i", "t", "c", "h", "s", "t", "a", "r", "t">>,
   <<"p", "i", "t", "c", "h", "e", "n", "d">>,
   <<"p", "i", "t", "c", "h", "l">>,
   <<"p", "i", "t", "c", "h", "r">>,
   <<"b", "o", "u", "n", "c", "e", "g", "o", "o", "d">>,
   <<"b", "o", "u", "n", "c", "e", "y", "o", "r", "k", "e", "r">>,
   <<"o", "f", "f", "s", "t", "u", "m", "p">>,
   <<"w", "i", "c", "k", "e", "t", "t", "a", "r", "g", "e", "t">>}

MinVertices == 100
MinIndices == 300
SizeFactor == 6
\* "private pitchLen = 20.12", in millimetres
PitchLen == 20120

\* the filter of createEnvironmentColliders for one mesh of stadiumMeshes:
\* enabled flag, name, vertex and index counts, half-extents of the world
\* bounding box (extendSizeWorld, millimetres)
IsColliderCandidate(m) ==
  LET n == toLowerCase(m.name)
      maxDim == Max(m.ext.x, Max(m.ext.y, m.ext.z)) * 2
  IN /\ m.enabled
     /\ ~\E sub \in MarkerSubstrings : includes(n, sub)
     /\ ~\E sub \in CharacterSubstrings : includes(n, sub)
     /\ ~\E sub \in AuthoredPointSubstrings : includes(n, sub)
     /\ ~(m.verts < MinVertices \/ m.inds < MinIndices)
     /\ ~(maxDim > PitchLen * SizeFactor)

\* mesh names as an asset can carry them, each with the kind of substring
\* it contains once lower-cased
MeshNames ==
  {[chars |-> <<>>, kind |-> "plain"],
   [chars |-> <<"G", "r", "o", "u", "n", "d">>, kind |-> "plain"],
   [chars |-> <<"S", "t", "a", "n", "d", "_", "R", "o", "o", "f">>, kind |-> "plain"],
   [chars |-> <<"B", "o", "u", "n", "d", "a", "r", "y">>, kind |-> "plain"],
   [chars |-> <<"P", "i", "t", "c", "h">>, kind |-> "plain"],
   [chars |-> <<"w", "i", "c", "k", "e", "t", "1">>, kind |-> "plain"],
   [chars |-> <<"H", "e", "l", "p", "e", "r", "C", "u", "b", "e">>, kind |-> "marker"],
   [chars |-> <<"S", "p", "a", "w", "n", "P", "o", "i", "n", "t">>, kind |-> "marker"],
   [chars |-> <<"B", "a", "t", "s", "m", "a", "n", "_", "B", "o", "d", "y">>, kind |-> "character"],
   [chars |-> <<"P", "l", "a", "y", "e", "r", "2">>, kind |-> "character"],
   [chars |-> <<"C", "h", "a", "r", "a", "c", "t", "e", "r", "0", "1">>, kind |-> "character"],
   [chars |-> <<"U", "M", "P", "I", "R", "E", "_", "M", "A", "N">>, kind |-> "character"],
   [chars |-> <<"B", "a", "l", "l", "R", "e", "l", "e", "a", "s", "e">>, kind |-> "point"],
   [chars |-> <<"P", "i", "t", "c", "h", "S", "t", "a", "r", "t">>, kind |-> "point"],
   [chars |-> <<"p", "i", "t", "c", "h", "e", "n", "d", "_", "m", "a", "r", "k">>, kind |-> "point"],
   [chars |-> <<"P", "i", "t", "c", "h", "L">>, kind |-> "point"],
   [chars |-> <<"P", "i", "t", "c", "h", "R", "o", "l", "l", "e", "r">>, kind |-> "point"],
   [chars |-> <<"B", "o", "u", "n", "c", "e", "G", "o", "o", "d">>, kind |-> "point"],
   [chars |-> <<"B", "o", "u", "n", "c", "e", "Y", "o", "r", "k", "e", "r">>, kind |-> "point"],
   [chars |-> <<"O", "f", "f", "S", "t", "u", "m", "p">>, kind |-> "point"],
   [chars |-> <<"W", "i", "c", "k", "e", "t", "T", "a", "r", "g", "e", "t">>, kind |-> "point"]}

MeshInputs ==
  { [stage |-> "mesh", enabled |-> e, name |-> nk.chars, kind |-> nk.kind,
     verts |-> v, inds |-> i, ext |-> x] :
      e \in BOOLEAN, nk \in MeshNames,
      v \in {99, 100, 5000}, i \in {299, 300, 9000},
      x \in { [x |-> 1500, y |-> 400, z |-> 900],
              [x |-> 60360, y |-> 100, z |-> 60360],
              [x |-> 60361, y |-> 100, z |-> 200],
              [x |-> 100, y |-> 60361, z |-> 100] } }

InitColliders ==
  /\ InitGame
  /\ frameDt \in FrameDts
  /\ sixIn = NoContact
  /\ planIn \in MeshInputs
  /\ planOut = NoPlan

\* createEnvironmentColliders: a PhysicsAggregate of mass 0 for each
\* candidate.
createEnvironmentColliders ==
  /\ planIn # NoPlan /\ planOut = NoPlan
  /\ planOut' = [stage |-> "colliders", collider |-> IsColliderCandidate(planIn)]
  /\ UNCHANGED <<gameVars, sixIn, planIn>>

SpecColliders == InitColliders /\ [][createEnvironmentColliders]_vars

\* ------------------------------------------------- bounce redirect alone
\* Vectors have whole-number components and a whole-number length, so that
\* normalize() and length() are exact; velocities are in m/s.
Length(vec) ==
  CHOOSE k \in 0..(Abs(vec.x) + Abs(vec.y) + Abs(vec.z)) :
    k * k = vec.x * vec.x + vec.y * vec.y + vec.z * vec.z

FMax(a, b) == IF a.n * b.d >= b.n * a.d THEN a ELSE b

\* Vector3.normalize: a zero vector is left as it is
normalize(vec) ==
  LET len == Length(vec)
  IN IF len = 0 THEN [x |-> Frac(0, 1), y |-> Frac(0, 1), z |-> Frac(0, 1)]
     ELSE [x |-> Frac(vec.x, len), y |-> Frac(vec.y, len),
           z |-> Frac(vec.z, len)]

\* ball tick, first bounce: "toward = wicket.subtract(p).normalize();
\* speed2 = Math.max(v.length() * 0.65, 6); newV = toward.scale(speed2);
\* newV.y = Math.max(v.y, 1.0); body.setLinearVelocity(newV)"
RedirectVelocity(toWicket, v) ==
  LET toward == normalize(toWicket)
      speed2 == FMax(FMul(Frac(Length(v), 1), Frac(65, 100)), Frac(6, 1))
  IN [x |-> FMul(toward.x, speed2),
      y |-> FMax(Frac(v.y, 1), Frac(1, 1)),
      z |-> FMul(toward.z, speed2)]

\* wicket target minus ball position, and the velocity read at the bounce
RedirectInputs ==
  { [stage |-> "bounce", toWicket |-> d, v |-> w] :
      d \in { [x |-> 0, y |-> 0, z |-> 0], [x |-> 0, y |-> 0, z |-> 5],
              [x |-> 3, y |-> 0, z |-> 4], [x |-> 12, y |-> 1, z |-> 12],
              [x |-> 0, y |-> 3, z |-> 4], [x |-> 0, y |-> 0 - 3, z |-> 4],
              [x |-> 2, y |-> 1, z |-> 2], [x |-> 6, y |-> 2, z |-> 3],
              [x |-> 0, y |-> 5, z |-> 12], [x |-> 1, y |-> 4, z |-> 8],
              [x |-> 0, y |-> 7, z |-> 24], [x |-> 0, y |-> 1, z |-> 0] },
      w \in { [x |-> 0, y |-> 0, z |-> 0], [x |-> 0, y |-> 0 - 3, z |-> 4],
              [x |-> 0, y |-> 0 - 12, z |-> 16], [x |-> 0, y |-> 4, z |-> 3],
              [x |-> 2, y |-> 0 - 1, z |-> 2], [x |-> 0, y |-> 0 - 5, z |-> 12],
              [x |-> 0, y |-> 12, z |-> 5], [x |-> 0, y |-> 0 - 24, z |-> 32],
              [x |-> 4, y |-> 0, z |-> 3] } }

InitRedirect ==
  /\ InitGame
  /\ frameDt \in FrameDts
  /\ sixIn = NoContact
  /\ planIn \in RedirectInputs
  /\ planOut = NoPlan

\* The first-bounce block of the ball tick, from the readings to the
\* velocity it writes.
RedirectAtBounce ==
  /\ planIn # NoPlan /\ planOut = NoPlan
  /\ planOut' = [stage |-> "redirected",
                 vel |-> RedirectVelocity(planIn.toWicket, planIn.v)]
  /\ UNCHANGED <<gameVars, sixIn, planIn>>

SpecRedirect == InitRedirect /\ [][RedirectAtBounce]_vars

\* ================================================================ claims

\* C1: in every reachable state at most one ball (mesh + physics body) is
\* live and at most one ball tick is registered, and right after deliverBall
\* exactly the new ball and its tick exist: the previous ball was disposed
\* and its observer removed first.
C1_AtMostOneLiveBall ==
  /\ liveBalls <= 1
  /\ observers <= 1
  /\ "deliverBall" \in did =>
       (liveBalls = 1 /\ observers = 1 /\ activeBall /\ ballObserver)

\* a delivery that found the previous ball still live and ticking
C1_Witness ==
  /\ {"deliverBall", "disposeBall", "removeObserver"} \subseteq did
  /\ balls = 2 /\ liveBalls = 1

\* C2: runs never decreases from one state to the next, except in the
\* resetGame step, which sets it to 0.
C2_RunsMonotone ==
  [][runs' >= runs \/ ("resetGame" \in did' /\ runs' = 0)]_vars

\* a second credit added on top of an earlier one
C2_Witness == runs = 10 /\ credits = 1 /\ balls = 2

\* C3: between one deliverBall and the next (or reset), addRuns changes runs
\* at most once.
C3_OneCreditPerDelivery == credits <= 1

\* a hit ball that has scored its boundary reaches the terminal tick
C3_Witness ==
  /\ "terminal" \in did /\ wasHitThisDelivery
  /\ boundaryScored /\ credits = 1

CrossingTick ==
  /\ "ballTick" \in did'
  /\ ~boundaryScored
  /\ prevInsideBoundary /\ ~IsInsideBoundary(sample'.r)

CrossingCredit ==
  runs' = runs + (IF wasHitThisDelivery /\ ~touchedGroundSinceHit'
                  THEN 6 ELSE 4)

NoSecondBoundary ==
  (boundaryScored /\ "ballTick" \in did') =>
     (did' \cap {"six", "four"} = {} /\ boundaryScored')

\* C4 (as stated): on the ball tick where the ball goes from inside to
\* outside the boundary circle, with no boundary scored yet, runs increases
\* by exactly 6 if the ball was hit and has not touched the ground since,
\* else by exactly 4; no later tick of the delivery awards a boundary.
C4_BoundaryCreditAsStated ==
  [][(CrossingTick => CrossingCredit) /\ NoSecondBoundary]_vars

\* C4 (amended): the same, on crossing ticks where the wicket check does not
\* end the match first and boundary scoring is enabled (radius above 0.01).
C4_BoundaryCredit ==
  [][((CrossingTick /\ ~(ballAge > WicketGraceMs /\ sample'.wicket)
                    /\ boundaryRadius > BoundaryRadiusFloor)
         => CrossingCredit)
     /\ NoSecondBoundary]_vars

\* a six: a hit ball crossed the boundary before touching the ground
C4_Witness == "six" \in did /\ credits = 1 /\ runs = 6

\* C5: a ball tick with age > 0.25 s and the ball within wicket proximity
\* sets gameOver with status "OUT! Wicket hit"; at age <= 0.25 s wicket
\* proximity never causes gameOver.
C5_WicketOut ==
  [][/\ ("ballTick" \in did' /\ sample'.wicket /\ ballAge > WicketGraceMs)
          => (gameOver' /\ status' = "OUT! Wicket hit")
     /\ ("ballTick" \in did' /\ sample'.wicket /\ ballAge <= WicketGraceMs)
          => ~gameOver']_vars

\* the ball reached the wicket after the grace period
C5_Witness == "setOut" \in did /\ gameOver /\ sample.wicket

ScriptedWrites ==
  {"pin", "launch", "swingImpulse", "bounceRedirect", "materialChange",
   "skidFloor"}

\* C6: from the step that sets gameOver up to resetGame, no delivery is
\* started, no scripted ball write happens, no contact is resolved, and
\* runs, balls, hits and misses stay unchanged.
C6_GameOverHalts ==
  [][gameOver' =>
       /\ UNCHANGED scoreVars
       /\ did' \cap (ScriptedWrites \cup {"deliverBall", "contact", "miss"})
            = {}]_vars

\* a swing that would have counted as a miss expires while the game is over
C6_Witness ==
  /\ gameOver /\ "swingExpired" \in did
  /\ pressedLive /\ ~swingConsumedHit /\ activeBall

\* C7: immediately after resetGame the scores are 0, gameOver is false, no
\* ball is live, no ball observer is registered and every per-delivery and
\* swing flag has its default value.
C7_ResetDefaults ==
  "resetGame" \in did =>
    /\ runs = 0 /\ balls = 0 /\ hits = 0 /\ misses = 0
    /\ ~gameOver
    /\ ~activeBall /\ liveBalls = 0
    /\ ~ballObserver /\ observers = 0
    /\ ~ballWasHit /\ ~wasHitThisDelivery /\ ~touchedGroundSinceHit
    /\ ~boundaryScored /\ hitAssistFramesLeft = 0
    /\ ~pendingMissForThisSwing /\ ~isSwinging /\ ~swingConsumedHit

\* a reset of a match that had a hit, and a non-default launch vector left
C7_Witness == "resetGame" \in did /\ hitAssistVel # ZeroVel /\ swingLeft >= 0

\* C8: no delivery is started while the countdown is running, and once the
\* countdown has completed a delivery is eventually started (frames keep
\* ticking, game not over).
C8_CountdownThenDelivery ==
  /\ [][("deliverBall" \in did') => (countdownT = 0 /\ countdownT' = 0)]_vars
  /\ [](countdownT > 0 => deliveryIn = Infinity)
  /\ ("countdownDone" \in did /\ ~gameOver) ~> ("deliverBall" \in did)

\* the first delivery of a match started by PLAY AGAIN
C8_Witness == "deliverBall" \in did /\ balls = 1 /\ hitAssistVel # ZeroVel

\* C9: a press made with a live, un-hit ball whose window expires with no
\* contact resolved and the game not over adds exactly 1 to misses and
\* leaves runs unchanged.
C9_MissOnExpiry ==
  [][("swingExpired" \in did' /\ pressedLive /\ ~swingConsumedHit
        /\ ~gameOver)
       => (misses' = misses + 1 /\ runs' = runs)]_vars

\* a recorded miss
C9_Witness == "miss" \in did /\ misses = 1 /\ pressedLive

AllAtOrAbove(q) ==
  /\ q.timing >= SIX_TIMING_MIN
  /\ q.align >= SIX_ALIGN_MIN
  /\ q.speed >= SIX_SWING_SPEED_MIN
  /\ q.sweet >= SixSweetMin

UngatedVel(q) ==
  [loft |-> IF q.timing < MistimedBelow THEN MistimedLoftMul ELSE Unit,
   power |-> IF q.timing < MistimedBelow THEN MistimedPowerMul ELSE Unit]

GatedVel(q) ==
  [loft |-> (UngatedVel(q).loft * SixGateLoftMul) \div Unit,
   power |-> (UngatedVel(q).power * SixGatePowerMul) \div Unit]

\* C10: at contact, if timingScore, alignFactor, swingSpeed and the
\* sweet-spot factor are all at or above 0.88, 0.75, 8.0 and 0.7, the
\* six-gate multipliers (loft x0.55, power x0.85) are not applied; if any
\* one is below its threshold, both are applied.
C10_SixGateAtOrAbove ==
  "contact" \in did =>
     hitAssistVel = IF AllAtOrAbove(sixIn) THEN UngatedVel(sixIn)
                    ELSE GatedVel(sixIn)

\* position after ideal flight of duration tf: r + v*tf + (g*tf^2/2) up
IdealLanding(r, vel, tf) ==
  [x |-> FAdd(Metres(r.v), FMul(vel.x, tf)),
   z |-> FAdd(Metres(r.u), FMul(vel.z, tf)),
   y |-> FAdd(FAdd(Metres(r.y), FMul(vel.y, tf)),
              FMul(FMul(Half, Gravity), FMul(tf, tf)))]

\* C11: for every release point, bounce point and flight time, the launch
\* velocity deliverBall solves puts the ball exactly on the bounce point
\* after ideal (drag-free) flight of that duration, in all three coordinates.
C11_SolveHitsBounce ==
  (planOut # NoPlan /\ planOut.stage = "solved") =>
    IdealLanding(planIn.release, planOut.vel, Seconds(planIn.t))
      = [x |-> Metres(planOut.bounce.v), z |-> Metres(planOut.bounce.u),
         y |-> Metres(planOut.bounce.y)]

\* a long flight to an off-line bounce point: launched upwards and sideways
C11_Witness ==
  /\ planOut # NoPlan /\ planOut.stage = "solved"
  /\ planIn.t = 1350 /\ planOut.vel.y.n > 0 /\ planOut.vel.x.n # 0

WithinMargins(b, length, width) ==
  /\ b.u >= PlanMarginLen /\ b.u <= length - PlanMarginLen
  /\ b.v >= (0 - width \div 2) + PlanMarginSide
  /\ b.v <= width \div 2 - PlanMarginSide

StrictlyInsidePitch(b, length, width) ==
  /\ b.u > 0 /\ b.u < length
  /\ b.v > 0 - width \div 2 /\ b.v < width \div 2

FlightLowerMs == 250
FlightUpperMs == 1350

\* C13: for every delivery, the flight duration t that deliverBall solves
\* with and that the ball tick compares the age with lies in [0.25, 1.35] s.
C13_FlightTimeInRange ==
  observers > 0 => (t >= FlightLowerMs /\ t <= FlightUpperMs)

\* the second delivery of a match, its flight time computed
C13_Witness == "deliverBall" \in did /\ balls = 2 /\ t = FlightTime(200)

\* observer p has already run in the current frame (between frames: all)
TickDone(p) ==
  phase = "idle" \/
    (CHOOSE i \in 1..3 : FrameOrder[i] = p)
      < (CHOOSE i \in 1..3 : FrameOrder[i] = phase)

BallScriptedWrites ==
  {"swingImpulse", "bounceRedirect", "materialChange", "skidFloor"}

C15_HitStopsScripted ==
  [][/\ (ballWasHit /\ "ballTick" \in did')
          => did' \cap BallScriptedWrites = {}
     /\ (ballWasHit /\ ballWasHit' /\ observers' > 0)
          => (bounced' = bounced
              /\ postBounceNoRebounceApplied' = postBounceNoRebounceApplied)
    ]_vars

\* a hit ball, frames after the contact, low on the pitch past its bounce time
C15_Witness ==
  /\ "ballTick" \in did /\ ballWasHit /\ sinceHit > HIT_GROUND_GRACE_MS
  /\ ~bounced /\ ballAge > t + SkidDelayMs /\ sample.y <= PitchTouchY
  /\ observers > 0

TerminalTick ==
  /\ "ballTick" \in did'
  /\ (ballAge > TerminalAgeMs \/ sample'.y < 0 - FallDepth)

BallGone == ~activeBall /\ liveBalls = 0 /\ ~ballObserver /\ observers = 0

\* C16 (as stated): on the ball tick where age > 8 s or the ball is more
\* than 5 below baseY, the ball and its observer are disposed and runs
\* increases by exactly 1 if the ball was hit this delivery and no boundary
\* was scored, and is unchanged otherwise.
C16_TerminalSingleAsStated ==
  [][TerminalTick =>
       /\ BallGone'
       /\ runs' = runs + (IF wasHitThisDelivery /\ ~boundaryScored
                          THEN 1 ELSE 0)]_vars

\* C16 (amended): on such a tick (the wicket check not ending the match
\* first) the ball and its observer are disposed; the terminal check adds
\* exactly 1 if the ball was hit and no boundary has been scored, this
\* tick's own boundary check included, and nothing otherwise; a boundary
\* crossed on this same tick still adds its 4 or 6.
C16_TerminalSingle ==
  [][(TerminalTick /\ ~(ballAge > WicketGraceMs /\ sample'.wicket)) =>
       /\ BallGone'
       /\ ("single" \in did') <=> (wasHitThisDelivery /\ ~boundaryScored')
       /\ runs' = runs
                  + (IF "six" \in did' THEN 6
                     ELSE IF "four" \in did' THEN 4 ELSE 0)
                  + (IF "single" \in did' THEN 1 ELSE 0)]_vars

\* a hit ball that fell through inside the boundary: one run, ball gone
C16_Witness ==
  /\ {"terminal", "single"} \subseteq did /\ runs = 1 /\ credits = 1
  /\ BallGone /\ sample.y < 0 - FallDepth

\* C17: if any of the ten scene anchors is absent from the loaded scene,
\* loading fails with an error and the delivery scheduler is never started.
C17_MissingPointFails ==
  ~(RequiredPoints \subseteq sceneAnchors) =>
    /\ ~schedulerStarted
    /\ loadStage \in {"stadium", "failed"}
    /\ loadStage = "failed" => "throwMissingPoint" \in did

\* a scene that lacks only OffStump, the last point fetched
C17_Witness ==
  /\ loadStage = "failed"
  /\ sceneAnchors = RequiredPoints \ {"OffStump"}

\* C18: if BatL, BatR or BatStart is missing from the bat asset, loading
\* fails and delivery scheduling does not start.
C18_MissingBatAnchorFails ==
  ~(BatAnchorNames \subseteq batAnchors) =>
    (~schedulerStarted /\ loadStage # "ready")

Armed == isSwinging /\ ~swingConsumedHit

\* C19: per swing (one press and its window) contact is resolved at most
\* once: a contact needs an unconsumed swing and consumes it, and only a
\* new press makes a swing unconsumed again, however many later ticks of
\* the window find the ball within the hit radius.
C19_OneContactPerSwing ==
  [][/\ "contact" \in did' => (Armed /\ sample'.reach /\ swingConsumedHit')
     /\ (~Armed /\ Armed') => "press" \in did'
     /\ (swingConsumedHit /\ phase = "bat") => "contact" \notin did']_vars

\* a later tick of the same window, hit assist over, ball within the radius
C19_Witness ==
  /\ sample.reach /\ isSwinging /\ swingConsumedHit /\ swingLeft >= 0
  /\ "contact" \notin did /\ "pin" \notin did
  /\ hitAssistFramesLeft = 0 /\ activeBall /\ ~gameOver

PinTick ==
  /\ "pin" \in did' /\ "contact" \notin did'
  /\ ("launch" \in did') <=> (pinsOwed = 1)

\* C20 (as stated): on each of the 2 bat ticks after a contact the ball is
\* pinned to BatStart with zero velocity, the launch vector is written
\* exactly once, on the second of them, and no contact is resolved on them.
C20_PinTwoTicksAsStated ==
  [][(phase = "bat" /\ pinsOwed > 0) => PinTick]_vars

\* C20 (amended): the same on those of the 2 ticks at which the game is not
\* over and the hit ball is still the active ball (no delivery, disposal or
\* reset since the contact).
C20_PinTwoTicks ==
  [][(/\ phase = "bat" /\ pinsOwed > 0
      /\ ~gameOver /\ activeBall /\ ballWasHit
      /\ "BatStart" \in batAnchors)
       => (PinTick /\ hitAssistFramesLeft = pinsOwed
                   /\ hitAssistFramesLeft' = pinsOwed - 1)]_vars

\* the second tick after a contact: ball released with the launch vector
C20_Witness ==
  /\ {"pin", "launch"} \subseteq did /\ pinsOwed = 0
  /\ hitAssistFramesLeft = 0 /\ activeBall /\ ballWasHit
  /\ hitAssistVel # ZeroVel

\* between the two numbers deliverBall passes to clamp
BetweenClampBounds(raw) ==
  /\ raw >= Min(FlightMinMs, FlightMaxMs)
  /\ raw <= Max(FlightMinMs, FlightMaxMs)

\* C21: for every delivery the flight duration t equals distance/speed
\* whenever distance/speed lies between the clamp bounds, and of two
\* deliveries to the same bounce point the one with the larger speed never
\* has the larger t.
C21_FlightTimeFollowsSpeed ==
  (planOut # NoPlan /\ planOut.stage = "times") =>
    /\ BetweenClampBounds(planOut.rawA) => planOut.tA = planOut.rawA
    /\ BetweenClampBounds(planOut.rawB) => planOut.tB = planOut.rawB
    /\ planIn.speedA > planIn.speedB => planOut.tA <= planOut.tB

OutTick ==
  "ballTick" \in did' /\ ballAge > WicketGraceMs /\ sample'.wicket

\* C22: the per-tick checks run in the order wicket, boundary, terminal: on
\* a ball tick where the wicket check sets gameOver no runs are credited,
\* even if the ball also crossed the boundary on that tick; and a boundary
\* scored on a tick is seen by the terminal check of the same tick.
C22_WicketBoundaryTerminal ==
  [][/\ OutTick => /\ gameOver' /\ "setOut" \in did'
                   /\ runs' = runs /\ credits' = credits
                   /\ did' \cap {"six", "four", "single", "terminal"} = {}
     /\ ("terminal" \in did' /\ did' \cap {"six", "four"} # {})
          => "single" \notin did']_vars

\* out on the tick on which the hit ball was outside the circle for the
\* first time
C22_Witness ==
  /\ "setOut" \in did /\ gameOver /\ sample.wicket
  /\ wasHitThisDelivery /\ ~boundaryScored
  /\ prevInsideBoundary /\ ~IsInsideBoundary(sample.r)
  /\ boundaryRadius > BoundaryRadiusFloor

UnhitTick == "ballTick" \in did' /\ ~ballWasHit

BounceTick ==
  UnhitTick /\ ~bounced /\ ballAge >= t /\ sample'.y <= PitchTouchY

NoEarlyBounce ==
  (UnhitTick /\ ballAge < t) => ("bounceRedirect" \notin did' /\ ~bounced')

RedirectOnce ==
  /\ "bounceRedirect" \in did' => ~bounced
  /\ (bounced /\ observers' > 0 /\ "deliverBall" \notin did') => bounced'

\* C23 (as stated): for an un-hit ball, bounced becomes true (and the
\* redirect is applied) on the first tick where age >= t and height <= the
\* touch threshold, never on a tick with age < t even if the ball is at or
\* below the threshold, and the redirect is applied at most once per delivery.
C23_FirstBounceAsStated ==
  [][/\ BounceTick => "bounceRedirect" \in did'
     /\ NoEarlyBounce
     /\ RedirectOnce]_vars

\* C23 (amended): the same, for the first such tick that the wicket check
\* does not end with an out.
C23_FirstBounce ==
  [][/\ (BounceTick /\ ~(ballAge > WicketGraceMs /\ sample'.wicket))
          => /\ "bounceRedirect" \in did'
             /\ observers' > 0 => bounced'
     /\ NoEarlyBounce
     /\ RedirectOnce]_vars

\* a ball that was already low before t and still up at t bounces later
C23_Witness ==
  /\ "bounceRedirect" \in did /\ bounced /\ ~ballWasHit /\ observers > 0
  /\ ballAge > t /\ sample.y <= PitchTouchY

GroundTouchTick ==
  /\ "ballTick" \in did' /\ "setOut" \notin did'
  /\ wasHitThisDelivery /\ sinceHit > HIT_GROUND_GRACE_MS
  /\ sample'.y <= PitchTouchY + GroundTolerance
  /\ sample'.vyLow
  /\ dippedLow'

\* C24: touchedGroundSinceHit becomes true only on a ball tick more than
\* 220 ms after the most recent contact on which the ball is near the
\* ground, not rising (vy <= 0.15) and the minimum height recorded since the
\* hit is at or below the ground threshold; within 220 ms of a contact it is
\* false.
C24_GroundTouchAfterGrace ==
  /\ [][(~touchedGroundSinceHit /\ touchedGroundSinceHit')
          => GroundTouchTick]_vars
  /\ [](sinceHit <= HIT_GROUND_GRACE_MS => ~touchedGroundSinceHit)
  /\ [][("contact" \in did') => (sinceHit' = 0 /\ ~touchedGroundSinceHit')]_vars

\* a second contact on a ball that had touched the ground clears the flag;
\* the ball then comes down again after the grace period
C24_Witness ==
  /\ "ballTick" \in did /\ touchedGroundSinceHit /\ wasHitThisDelivery
  /\ sinceHit > HIT_GROUND_GRACE_MS /\ sample.vyLow
  /\ sample.y <= PitchTouchY + GroundTolerance /\ ~boundaryScored

\* C25: misses increases only on a swing-window expiry, by 1, and only if
\* at the press of that swing a ball was live and not yet hit this delivery
\* and the game is not over at the expiry; a press with no live ball or
\* after the hit never records a miss.
C25_MissOnlyOnLiveExpiry ==
  [][/\ misses' > misses =>
          /\ misses' = misses + 1
          /\ {"swingExpired", "miss"} \subseteq did'
          /\ pressedLive /\ ~gameOver /\ ~gameOver'
     /\ ("swingExpired" \in did' /\ (~pressedLive \/ gameOver))
          => misses' = misses]_vars

\* a swing pressed after the ball was hit expires unconsumed: no miss
C25_Witness ==
  /\ "swingExpired" \in did /\ "miss" \notin did
  /\ ~pressedLive /\ ~swingConsumedHit
  /\ wasHitThisDelivery /\ activeBall /\ ~gameOver /\ misses = 0

ExpiryTick == phase = "bat" /\ isSwinging /\ swingLeft < 0

SwingEndsAtExpiry ==
  /\ ExpiryTick => (~isSwinging' /\ "swingExpired" \in did')
  /\ (phase = "bat" /\ isSwinging /\ swingLeft >= 0) => isSwinging'
  /\ (phase = "bat" /\ ~isSwinging') => "contact" \notin did'
  /\ (~isSwinging /\ isSwinging') => "press" \in did'

\* C26 (as stated): a press sets isSwinging = true with a window of 160 ms;
\* isSwinging becomes false on the first bat tick later than 160 ms after
\* the most recent press, and no contact is resolved on or after that tick
\* until a new press.
C26_SwingWindowAsStated ==
  [][/\ (did' \cap {"press", "pressIgnored"} # {})
          => (isSwinging' /\ swingLeft' = SwingWindowMs)
     /\ (isSwinging /\ ~isSwinging') => ExpiryTick
     /\ SwingEndsAtExpiry]_vars

\* C26 (amended): the same for a press while the game is not over (a press
\* while it is over changes nothing), and with resetGame as the one other
\* step that ends a swing.
C26_SwingWindow ==
  [][/\ "press" \in did' => (~gameOver /\ isSwinging'
                             /\ swingLeft' = SwingWindowMs)
     /\ "pressIgnored" \in did' => (gameOver /\ UNCHANGED swingVars)
     /\ (isSwinging /\ ~isSwinging')
          => (ExpiryTick \/ "resetGame" \in did')
     /\ SwingEndsAtExpiry]_vars

\* the bat tick exactly 160 ms after the press has left the swing on; the
\* next one ends it
C26_Witness ==
  /\ "swingExpired" \in did /\ ~isSwinging /\ swingLeft < 0
  /\ "contact" \notin did /\ sample.reach = FALSE /\ activeBall /\ ~gameOver

\* C27: every deliverBall (the game not over) increases balls by exactly 1,
\* sets ballWasHit, wasHitThisDelivery, touchedGroundSinceHit and
\* boundaryScored to false and hitAssistFramesLeft to 0 and leaves runs,
\* hits and misses unchanged; balls changes in no other step except reset.
C27_DeliveryCountsAndClears ==
  [][/\ "deliverBall" \in did' =>
          /\ ~gameOver /\ ~gameOver'
          /\ balls' = balls + 1
          /\ ~ballWasHit' /\ ~wasHitThisDelivery'
          /\ ~touchedGroundSinceHit' /\ ~boundaryScored'
          /\ hitAssistFramesLeft' = 0
          /\ UNCHANGED <<runs, hits, misses>>
     /\ balls' # balls =>
          ("deliverBall" \in did' \/ ("resetGame" \in did' /\ balls' = 0))
    ]_vars

\* the second delivery starts in the frame whose bat tick resolved a
\* contact on the first ball, which had scored
C27_Witness ==
  /\ "deliverBall" \in did /\ balls = 2 /\ hits = 1 /\ runs > 0
  /\ pinsOwed = HitAssistFrames /\ hitAssistFramesLeft = 0
  /\ ~ballWasHit /\ ~boundaryScored

\* C28: within a match two consecutive deliveries are started at least
\* deliveryIntervalMs (5300 ms) apart, and a delivery is started only on a
\* scheduler tick with now >= nextDeliveryAt and gameOver = false.
C28_DeliveriesSpaced ==
  [][/\ "deliverBall" \in did' =>
          /\ phase = "sched" /\ ~gameOver /\ deliveryIn <= 0
          /\ deliveryIn' = IntervalMs
          /\ balls >= 1 => sinceDelivery >= IntervalMs
     /\ (balls >= 1 /\ balls' >= 1 /\ sinceDelivery' # sinceDelivery)
          => ("deliverBall" \in did' \/
              (phase = "idle" /\ phase' = FrameOrder[1]
                 /\ sinceDelivery' = Min(sinceDelivery + frameDt, IntervalMs)))
    ]_vars

\* the second delivery of a match whose first ball went unplayed
C28_Witness ==
  /\ "deliverBall" \in did /\ balls = 2 /\ sinceDelivery = 0
  /\ deliveryIn = IntervalMs /\ hits = 0 /\ misses = 0 /\ runs = 0
  /\ hitAssistVel = ZeroVel

BoxSize(ext) == 2 * Max(ext.x, Max(ext.y, ext.z))

\* C29: a stadium mesh becomes a static collider exactly when it is enabled,
\* its lower-cased name contains none of the marker, character or
\* authored-point substrings, it has at least 100 vertices and 300 indices
\* and its bounding-box size (largest dimension) does not exceed 6 times
\* the pitch length.
C29_ColliderExactlyWhen ==
  (planOut # NoPlan /\ planOut.stage = "colliders") =>
    (planOut.collider <=>
       /\ planIn.enabled
       /\ planIn.kind = "plain"
       /\ planIn.verts >= 100 /\ planIn.inds >= 300
       /\ BoxSize(planIn.ext) <= 6 * PitchLen)

\* a mesh named in capitals for a person, large enough and small enough
C29_Witness ==
  /\ planOut # NoPlan /\ planOut.stage = "colliders" /\ ~planOut.collider
  /\ planIn.enabled /\ planIn.kind = "character" /\ planIn.name[1] = "U"
  /\ planIn.verts = 100 /\ planIn.inds = 300
  /\ BoxSize(planIn.ext) = 6 * PitchLen

MagnitudeSquared(vel) ==
  FAdd(FAdd(FMul(vel.x, vel.x), FMul(vel.y, vel.y)), FMul(vel.z, vel.z))

\* C30: the velocity written to the ball by the bounce redirect has
\* magnitude at least 6, for every pre-bounce velocity and every position
\* of the ball relative to the wicket target.
C30_RedirectSpeedAtLeastSix ==
  (planOut # NoPlan /\ planOut.stage = "redirected") =>
    LET m2 == MagnitudeSquared(planOut.vel)
    IN m2.n >= 36 * m2.d

\* C31: in every reachable state hits <= balls (and hits < balls while the
\* current delivery has not been hit), and hits increases at most once
\* between two consecutive deliveries: only by 1, only at a contact on a
\* delivery not hit so far, after which only deliverBall or resetGame
\* makes the delivery count as not hit again.
C31_HitsAtMostBalls ==
  /\ [](hits <= balls /\ (~wasHitThisDelivery => (hits = 0 \/ hits < balls)))
  /\ [][/\ hits' > hits => /\ hits' = hits + 1
                           /\ "contact" \in did'
                           /\ ~wasHitThisDelivery /\ wasHitThisDelivery'
        /\ (wasHitThisDelivery /\ ~wasHitThisDelivery')
             => did' \cap {"deliverBall", "resetGame"} # {}
        /\ (wasHitThisDelivery /\ "contact" \in did') => hits' = hits]_vars

\* a contact by a swing that was pressed when the ball had already been hit
C31_Witness ==
  /\ "contact" \in did /\ ~pressedLive /\ ballAge >= 2 * frameDt
  /\ observers > 0 /\ hits = 1 /\ balls = 1

\* C32: runs increases only on a delivery on which the ball has been hit:
\* on a delivery with no contact resolved no tick credits any run, also when
\* the un-hit ball crosses the boundary circle.
C32_RunsOnlyAfterHit ==
  [][runs' > runs => wasHitThisDelivery]_vars

\* C33: every delivery on which the ball was hit ends, before the next
\* delivery starts, with exactly one run credit (6, 4 or 1) or with OUT: when
\* the scheduler starts a delivery, a previous delivery that was hit has
\* been credited once.
C33_HitDeliveryCredited ==
  [][("deliverBall" \in did' /\ wasHitThisDelivery) => credits = 1]_vars

\* C34: in every reachable state a registered ball observer implies a live
\* ball, and a live ball with no registered ball observer exists only while
\* gameOver is true: after OUT the ball stays live until reset, after the
\* terminal tick both are gone.
C34_ObserverImpliesBall ==
  /\ (ballObserver \/ observers > 0) => (activeBall /\ liveBalls > 0)
  /\ ((activeBall \/ liveBalls > 0) /\ ~ballObserver /\ observers = 0)
       => gameOver
  /\ "setOut" \in did => (activeBall /\ liveBalls = 1 /\ observers = 0)
  /\ "terminal" \in did => BallGone

\* after OUT: the ball is still live, its observer is gone
C34_Witness ==
  /\ gameOver /\ activeBall /\ liveBalls = 1
  /\ ~ballObserver /\ observers = 0 /\ phase = "idle" /\ playAgainShown

\* the swing of the last press was made on a live un-hit ball and has had
\* neither its contact nor its miss yet
SwingUnresolved ==
  isSwinging /\ pendingMissForThisSwing /\ ~swingConsumedHit

\* C35: every press made while a ball is live and un-hit and the game is not
\* over, and followed by no game over, leads to exactly one of a contact
\* for that swing or misses + 1 for that swing, also when a second press
\* arrives within the first one's window: such a swing is ended only by its
\* contact or its miss, never replaced before either.
C35_PressResolvedOnce ==
  [][(SwingUnresolved /\ ~gameOver /\ ~gameOver') =>
       \/ ("contact" \in did' /\ misses' = misses)
       \/ ("miss" \in did' /\ misses' = misses + 1 /\ "contact" \notin did')
       \/ (SwingUnresolved' /\ "press" \notin did' /\ misses' = misses)]_vars

NoSixOnceTouched ==
  (touchedGroundSinceHit /\ "ballTick" \in did')
    => ("six" \notin did' /\ runs' < runs + 6)

\* C36 (as stated): within one delivery, once touchedGroundSinceHit is true
\* it stays true until the next delivery or reset, so a ball that has
\* touched the ground after being hit is never credited a six on that
\* delivery, even if it is struck again.
C36_GroundedStaysAsStated ==
  [][/\ (touchedGroundSinceHit /\ ~touchedGroundSinceHit')
          => did' \cap {"deliverBall", "resetGame"} # {}
     /\ NoSixOnceTouched]_vars

\* C36 (amended): once true the flag stays true until the next contact,
\* delivery or reset, and no tick that finds it true credits a six; a new
\* contact clears it.
C36_GroundedStays ==
  [][/\ (touchedGroundSinceHit /\ ~touchedGroundSinceHit')
          => did' \cap {"contact", "deliverBall", "resetGame"} # {}
     /\ NoSixOnceTouched
     /\ "contact" \in did' => ~touchedGroundSinceHit']_vars

\* a hit ball that touched the ground crosses the boundary: four
C36_Witness ==
  /\ "four" \in did /\ touchedGroundSinceHit /\ wasHitThisDelivery
  /\ runs = 4 /\ credits = 1 /\ boundaryScored

\* C37: a launch vector computed at a contact is only ever written to the
\* ball that was contacted: a pin or launch happens only on one of the 2 bat
\* ticks after a contact on the ball that is still the active one, and a
\* pending hit assist never outlives that ball into a later delivery.
C37_LaunchOnlyContactedBall ==
  /\ [][(did' \cap {"pin", "launch"} # {}) =>
          /\ activeBall /\ ballWasHit /\ ~gameOver
          /\ pinsOwed > 0 /\ hitAssistFramesLeft = pinsOwed
          /\ UNCHANGED <<activeBall, liveBalls, balls, hitAssistVel>>]_vars
  /\ []((hitAssistFramesLeft > 0 /\ activeBall) => ballWasHit)
  /\ [][did' \cap {"deliverBall", "resetGame"} # {}
          => hitAssistFramesLeft' = 0]_vars

\* the bat tick after a delivery that replaced a ball contacted one frame
\* earlier: the new ball is neither pinned nor launched
C37_Witness ==
  /\ phase = PhaseAfter("bat") /\ pinsOwed = 1 /\ did \cap {"pin", "launch"} = {}
  /\ activeBall /\ ~ballWasHit /\ hitAssistFramesLeft = 0
  /\ hitAssistVel # ZeroVel /\ balls = 2 /\ ~gameOver

\* C38: after a contact has been resolved on a delivery, misses does not
\* increase again until the next delivery has started, whatever presses and
\* window expiries follow: no miss is armed or recorded while the delivery
\* counts as hit, which it does from the contact to the next deliverBall or
\* reset.
C38_NoMissAfterContact ==
  /\ [][/\ misses' > misses => (~wasHitThisDelivery /\ ~wasHitThisDelivery')
        /\ "contact" \in did' => wasHitThisDelivery'
        /\ (wasHitThisDelivery /\ ~wasHitThisDelivery')
             => did' \cap {"deliverBall", "resetGame"} # {}]_vars
  /\ [](wasHitThisDelivery => ~pendingMissForThisSwing)

\* the window of a press made after the contact expires: no miss
C38_Witness ==
  /\ "swingExpired" \in did /\ "miss" \notin did /\ wasHitThisDelivery
  /\ ~swingConsumedHit /\ ~pressedLive /\ sinceHit > HIT_GROUND_GRACE_MS
  /\ hits = 1 /\ misses = 0 /\ activeBall /\ ~gameOver /\ balls = 2

====
